---- MODULE Spec2Model ----
(***************************************************************************)
(* ACC CAN test suite: decode_signals (parse_log.py) and the five checks,  *)
(* run_all_tests and summarize_results (test_cases.py).                    *)
(*                                                                         *)
(* Representation.                                                         *)
(*  - A timestamp is a whole number of ticks; WindowTicks ticks make the   *)
(*    0.2 s correlation window of check_emergency_stop, so one second is   *)
(*    TicksPerSecond ticks.  On this grid the float sums t - 0.2, t + 0.2  *)
(*    and the differences of timestamps are exact.                         *)
(*  - A physical value is a fixed-point number: the integer v stands for   *)
(*    v / ValueDen.  Thresholds are given in the same unit.                *)
(*  - The 'value' cell of a sample is a tagged record: "num" (int/float),  *)
(*    "none" (None / NaN) or "str" (the text of a decode failure).         *)
(*  - A pandas DataFrame is the sequence of its rows.  pd.DataFrame([])    *)
(*    has no columns, a DataFrame built from at least one row has all six. *)
(***************************************************************************)
EXTENDS Integers, Sequences, FiniteSets, TLC

\* ---------------------------------------------------------------- bounds
MaxFrames == 3
MaxBadFrames == 1
MaxTime == 2
WindowTicks == 1
ValueDen == 2

\* 0.2 s is one fifth of a second (test_cases.py:243-244)
WindowsPerSecond == 5
TicksPerSecond == WindowsPerSecond * WindowTicks

Times == 0..MaxTime

\* ------------------------------------------------------------ value cells
Num(v) == [tag |-> "num", num |-> v, str |-> ""]
NoneValue == [tag |-> "none", num |-> 0, str |-> ""]
Str(s) == [tag |-> "str", num |-> 0, str |-> s]

Absent == [has |-> FALSE, v |-> 0]
Bound(v) == [has |-> TRUE, v |-> v]

\* ------------------------------------------------------- signal databases
\* A signal occupies one payload byte (1-based index 'byte'); its physical
\* value is raw * scale + offset, scale and offset in units of 1/ValueDen.
Signal(name, byte, scale, offset, minimum, maximum) ==
    [name |-> name, byte |-> byte, scale |-> scale, offset |-> offset,
     minimum |-> minimum, maximum |-> maximum]

Message(name, frame_id, length, signals) ==
    [name |-> name, frame_id |-> frame_id, length |-> length, signals |-> signals]

ThrottleId == 256
SpeedId == 257
BrakeId == 258
AuxId == 259

\* The layout the tests describe: Throttle, VehicleSpeed, BrakeSystem, with
\* BrakePressure and BrakeChecksum in one frame, all signals of scale 1.
DbAcc ==
    << Message("Throttle", ThrottleId, 1,
          << Signal("ThrottlePosition", 1, ValueDen, 0, Bound(0), Bound(100 * ValueDen)) >>),
       Message("VehicleSpeed", SpeedId, 1,
          << Signal("Speed", 1, ValueDen, 0, Bound(0), Bound(200 * ValueDen)) >>),
       Message("BrakeSystem", BrakeId, 2,
          << Signal("BrakePressure", 1, ValueDen, 0, Bound(0), Absent),
             Signal("BrakeChecksum", 2, ValueDen, 0, Absent, Bound(200 * ValueDen)) >>) >>

\* A second database: pressure and checksum travel in separate frames and
\* have a fractional scale (1/ValueDen per raw unit).
DbAlt ==
    << Message("VehicleSpeed", SpeedId, 1,
          << Signal("Speed", 1, ValueDen, 0, Bound(100 * ValueDen), Absent) >>),
       Message("BrakePressureMsg", BrakeId, 1,
          << Signal("BrakePressure", 1, 1, 0, Bound(0), Bound(100 * ValueDen)) >>),
       Message("BrakeChecksumMsg", AuxId, 1,
          << Signal("BrakeChecksum", 1, 1, 0, Absent, Absent) >>) >>

\* A third database: the name Speed is declared by two messages with
\* different bounds, and pressure and checksum share a frame and have a
\* fractional scale.
DbDup ==
    << Message("VehicleSpeed", SpeedId, 1,
          << Signal("Speed", 1, ValueDen, 0, Bound(100 * ValueDen), Bound(250 * ValueDen)) >>),
       Message("BrakeSystem", BrakeId, 2,
          << Signal("BrakePressure", 1, 1, 0, Absent, Absent),
             Signal("BrakeChecksum", 2, 1, 0, Absent, Absent) >>),
       Message("WheelSpeed", AuxId, 1,
          << Signal("Speed", 1, ValueDen, 0, Bound(0), Bound(100 * ValueDen)) >>) >>

Databases == {DbAcc, DbAlt, DbDup}

\* ------------------------------------------------------------- raw frames
\* The frames offered to a run, per database.  Under DbAcc: two speeds, a
\* brake frame whose checksum echoes the pressure and one whose checksum
\* does not; under DbAlt: two speeds, one pressure and two checksums that
\* differ by one raw unit; under DbDup: two speeds, a brake frame whose
\* checksum is one raw unit (half a physical unit) above the pressure and a
\* wheel speed.
Payloads(db, id) ==
    IF id = SpeedId THEN { <<90>>, <<210>> }
    ELSE IF id = BrakeId
         THEN IF db = DbAcc THEN { <<210, 210>>, <<210, 90>> }
              ELSE IF db = DbAlt THEN { <<210>> } ELSE { <<210, 211>> }
    ELSE IF db = DbAcc THEN { }
         ELSE IF db = DbAlt THEN { <<210>>, <<211>> } ELSE { <<90>> }

FrameIds == {SpeedId, BrakeId, AuxId}

GoodFrames(db) ==
    UNION { { [timestamp |-> t, id |-> id, data |-> d] : t \in Times, d \in Payloads(db, id) }
            : id \in FrameIds }

\* Frames DbAcc cannot decode, in the middle of the trace: a truncated brake
\* frame and a frame of an id the database does not list.
BadFrames(db) ==
    IF db = DbAcc
    THEN { [timestamp |-> t, id |-> BrakeId, data |-> <<210>>] : t \in {1} }
         \cup { [timestamp |-> t, id |-> AuxId, data |-> <<210>>] : t \in {1} }
    ELSE { }

\* ------------------------------------------------------------ generic helpers
Range(s) == { s[i] : i \in 1..Len(s) }

RECURSIVE Filter(_, _)
\* rows of s whose index is in the set keep, in order
Filter(s, keep) ==
    IF Len(s) = 0 THEN << >>
    ELSE LET init == Filter(SubSeq(s, 1, Len(s) - 1), keep)
         IN IF Len(s) \in keep THEN Append(init, s[Len(s)]) ELSE init

Select(s, Test(_)) == Filter(s, { i \in 1..Len(s) : Test(s[i]) })

RECURSIVE Concat(_)
Concat(ss) == IF Len(ss) = 0 THEN << >> ELSE Head(ss) \o Concat(Tail(ss))

\* --------------------------------------------------------- decode_signals
\* bytes.hex(): two hexadecimal digits per byte, high nibble first
Hex(data) ==
    [i \in 1..(2 * Len(data)) |->
        IF i % 2 = 1 THEN data[(i + 1) \div 2] \div 16 ELSE data[i \div 2] % 16]

\* dbc.get_message_by_frame_id: index of the message, 0 for KeyError
get_message_by_frame_id(dbc, can_id) ==
    IF \E k \in 1..Len(dbc) : dbc[k].frame_id = can_id
    THEN CHOOSE k \in 1..Len(dbc) : dbc[k].frame_id = can_id
    ELSE 0

\* message.decode(data) fails on a payload shorter than the message
DecodeFails(message, data) == Len(data) < message.length

\* (faulty variant of message_decode: only the first signal is decoded)
message_decode_FirstSignalOnly(message, data) ==
    [k \in 1..1 |->
        LET sig == message.signals[k]
        IN [signal_name |-> sig.name,
            value |-> Num(data[sig.byte] * sig.scale + sig.offset)]]

\* message.decode(data): one (signal name, physical value) pair per signal
message_decode(message, data) ==
    [k \in 1..Len(message.signals) |->
        LET sig == message.signals[k]
        IN [signal_name |-> sig.name,
            value |-> Num(data[sig.byte] * sig.scale + sig.offset)]]

Sample(timestamp, message_name, can_id, signal_name, value, data) ==
    [timestamp |-> timestamp, message_name |-> message_name, message_id |-> can_id,
     signal_name |-> signal_name, value |-> value, raw_data |-> Hex(data)]

\* (faulty variant of DecodeOne: a frame that cannot be decoded is dropped)
DecodeOne_DropsFailed(msg, dbc) ==
    LET k == get_message_by_frame_id(dbc, msg.id)
    IN IF k = 0 \/ DecodeFails(dbc[IF k = 0 THEN 1 ELSE k], msg.data)
       THEN << >>
       ELSE LET decoded == message_decode(dbc[k], msg.data)
            IN [j \in 1..Len(decoded) |->
                  Sample(msg.timestamp, dbc[k].name, msg.id,
                         decoded[j].signal_name, decoded[j].value, msg.data)]

\* (faulty variant of DecodeOne: the signals that fit the payload are
\* emitted before the ERROR sample)
DecodeOne_PartialThenError(msg, dbc) ==
    LET k == get_message_by_frame_id(dbc, msg.id)
    IN IF k = 0
       THEN << Sample(msg.timestamp, "UNKNOWN", msg.id, "raw", NoneValue, msg.data) >>
       ELSE LET fits == { j \in 1..Len(dbc[k].signals) :
                            dbc[k].signals[j].byte <= Len(msg.data) }
                sigs == Filter(dbc[k].signals, fits)
                rows == [j \in 1..Len(sigs) |->
                           Sample(msg.timestamp, dbc[k].name, msg.id, sigs[j].name,
                                  Num(msg.data[sigs[j].byte] * sigs[j].scale
                                      + sigs[j].offset),
                                  msg.data)]
            IN IF DecodeFails(dbc[k], msg.data)
               THEN rows \o << Sample(msg.timestamp, "ERROR", msg.id, "decode_error",
                                      Str("Wrong data size"), msg.data) >>
               ELSE rows

\* the rows one iteration of the loop of decode_signals appends
DecodeOne(msg, dbc) ==
    LET k == get_message_by_frame_id(dbc, msg.id)
    IN IF k = 0
       THEN << Sample(msg.timestamp, "UNKNOWN", msg.id, "raw", NoneValue, msg.data) >>
       ELSE IF DecodeFails(dbc[k], msg.data)
       THEN << Sample(msg.timestamp, "ERROR", msg.id, "decode_error",
                      Str("Wrong data size"), msg.data) >>
       ELSE LET decoded == message_decode(dbc[k], msg.data)
            IN [j \in 1..Len(decoded) |->
                  Sample(msg.timestamp, dbc[k].name, msg.id,
                         decoded[j].signal_name, decoded[j].value, msg.data)]

\* (faulty variant of extend: the rows are kept in timestamp order)
extend_ByTimestamp(decoded_data, rows) ==
    LET before == { i \in 1..Len(decoded_data) :
                      Len(rows) = 0 \/ decoded_data[i].timestamp <= rows[1].timestamp }
    IN Filter(decoded_data, before) \o rows
          \o Filter(decoded_data, (1..Len(decoded_data)) \ before)

\* decoded_data.append(...) for each row of one frame: at the end of the list
extend(decoded_data, rows) == decoded_data \o rows

\* decode_signals(messages, dbc): the whole loop, from an empty list
RECURSIVE decode_signals(_, _)
decode_signals(msgs, db) ==
    IF Len(msgs) = 0 THEN << >>
    ELSE extend(decode_signals(SubSeq(msgs, 1, Len(msgs) - 1), db),
                DecodeOne(msgs[Len(msgs)], db))

\* ------------------------------------------------------------- TestResult
Msg(text, a, b) == [text |-> text, a |-> a, b |-> b]

\* (faulty variant of TestResult: the pass flag is always set)
TestResult_AlwaysPassed(name, passed, message, details, timestamps) ==
    [raised |-> FALSE, exc |-> "", name |-> name, passed |-> TRUE,
     message |-> message, details |-> details, timestamps |-> timestamps]

TestResult(name, passed, message, details, timestamps) ==
    [raised |-> FALSE, exc |-> "", name |-> name, passed |-> passed,
     message |-> message, details |-> details, timestamps |-> timestamps]

\* the call did not return: an exception left the function
Raise(exc) ==
    [raised |-> TRUE, exc |-> exc, name |-> "", passed |-> FALSE,
     message |-> Msg("", 0, 0), details |-> << >>, timestamps |-> << >>]

\* (faulty variant of to_dict: the count is that of the distinct timestamps)
to_dict_CountsDistinct(r) ==
    [name |-> r.name, passed |-> r.passed, message |-> r.message,
     details |-> r.details,
     violation_count |-> Cardinality({ r.timestamps[i] : i \in 1..Len(r.timestamps) }),
     timestamps |-> r.timestamps]

\* TestResult.to_dict
to_dict(r) ==
    [name |-> r.name, passed |-> r.passed, message |-> r.message,
     details |-> r.details, violation_count |-> Len(r.timestamps),
     timestamps |-> r.timestamps]

\* ------------------------------------------------------------ DataFrame
\* df.empty; a DataFrame made from no rows has no columns either
Empty(d) == Len(d) = 0
HasColumns(d) == Len(d) > 0

\* the 'value' column is of dtype object when a row holds a string
ObjectDtype(d) == \E i \in 1..Len(d) : d[i].value.tag = "str"

\* df[df['signal_name'] == name]
BySignal(d, name) == Select(d, LAMBDA row : row.signal_name = name)

\* (faulty variant of Gt: the comparison is not strict)
Gt_OrEqual(cell, x) == cell.tag = "num" /\ cell.num >= x

\* cell > x: false for NaN / None
Gt(cell, x) == cell.tag = "num" /\ cell.num > x
Lt(cell, x) == cell.tag = "num" /\ cell.num < x

Max(S) == CHOOSE x \in S : \A y \in S : y <= x

\* sorted(...) of a set of numbers
RECURSIVE SortedSeq(_)
SortedSeq(S) ==
    IF S = {} THEN << >>
    ELSE LET m == CHOOSE x \in S : \A y \in S : x <= y
         IN << m >> \o SortedSeq(S \ {m})

\* -------------------------------------------------------- check_overspeed
DefaultThresholdKmh == 100

\* (faulty variant of NoSpeedData: absence of the Speed signal passes)
NoSpeedData_Passes ==
    TestResult("Overspeed Detection", TRUE,
               Msg("No speed signal data found in log", 0, 0), << >>, << >>)

\* "if speed_df.empty": the result returned when no row is a Speed sample
NoSpeedData ==
    TestResult("Overspeed Detection", FALSE,
               Msg("No speed signal data found in log", 0, 0), << >>, << >>)

check_overspeed(d, threshold_kmh) ==
    IF Empty(d) \/ ~HasColumns(d)
    THEN TestResult("Overspeed Detection", FALSE,
                    Msg("No data available for analysis", 0, 0), << >>, << >>)
    ELSE LET speed_df == BySignal(d, "Speed")
             violations == Select(speed_df, LAMBDA row : Gt(row.value, threshold_kmh))
         IN IF Empty(speed_df)
            THEN NoSpeedData
            ELSE IF Empty(violations)
            THEN TestResult("Overspeed Detection", TRUE,
                            Msg("No overspeed conditions detected", threshold_kmh, 0),
                            << >>, << >>)
            ELSE TestResult("Overspeed Detection", FALSE,
                            Msg("Overspeed detected", Len(violations),
                                Max({ violations[i].value.num : i \in 1..Len(violations) })),
                            [i \in 1..Len(violations) |->
                                [timestamp |-> violations[i].timestamp,
                                 speed |-> violations[i].value.num,
                                 threshold |-> threshold_kmh,
                                 excess |-> violations[i].value.num - threshold_kmh]],
                            [i \in 1..Len(violations) |-> violations[i].timestamp])

\* ---------------------------------------------------------- check_timeout
DefaultTimeoutSeconds == 2

\* (faulty variant of InsufficientData: too few timestamps fail)
InsufficientData_Fails ==
    TestResult("Message Timeout Detection", FALSE,
               Msg("Insufficient data to check timeouts", 0, 0), << >>, << >>)

\* "if len(timestamps) < 2": the result returned on fewer than two timestamps
InsufficientData ==
    TestResult("Message Timeout Detection", TRUE,
               Msg("Insufficient data to check timeouts", 0, 0), << >>, << >>)

\* (faulty variant of TimedOut: a gap equal to the timeout counts)
TimedOut_OrEqual(interval, timeout_seconds) == interval >= timeout_seconds

\* (faulty variant of TimedOut: the comparison is turned around)
TimedOut_Within(interval, timeout_seconds) == interval <= timeout_seconds

\* "if interval > timeout_seconds"
TimedOut(interval, timeout_seconds) == interval > timeout_seconds

\* message_name = "" stands for None (both are falsy in "if message_name:")
check_timeout(d, timeout_seconds, message_name) ==
    IF Empty(d) \/ ~HasColumns(d)
    THEN TestResult("Message Timeout Detection", FALSE,
                    Msg("No data available for analysis", 0, 0), << >>, << >>)
    ELSE LET msg_df == IF message_name # ""
                       THEN Select(d, LAMBDA row : row.message_name = message_name)
                       ELSE d
             timestamps == SortedSeq({ msg_df[i].timestamp : i \in 1..Len(msg_df) })
             hits == { i \in 1..(Len(timestamps) - 1) :
                          TimedOut(timestamps[i + 1] - timestamps[i], timeout_seconds) }
             gaps == Filter(timestamps, hits)
             violations == [k \in 1..Len(gaps) |->
                              LET i == CHOOSE j \in hits : timestamps[j] = gaps[k]
                              IN [start_time |-> timestamps[i],
                                  end_time |-> timestamps[i + 1],
                                  gap_duration |-> timestamps[i + 1] - timestamps[i],
                                  threshold |-> timeout_seconds]]
         IN IF Empty(msg_df)
            THEN TestResult("Message Timeout Detection", FALSE,
                            Msg("No message data found in log", 0, 0), << >>, << >>)
            ELSE IF Len(timestamps) < 2
            THEN InsufficientData
            ELSE IF Len(violations) = 0
            THEN TestResult("Message Timeout Detection", TRUE,
                            Msg("No message timeouts detected", timeout_seconds, 0),
                            << >>, << >>)
            ELSE TestResult("Message Timeout Detection", FALSE,
                            Msg("Message timeout detected", Len(violations),
                                Max({ violations[k].gap_duration : k \in 1..Len(violations) })),
                            violations,
                            [k \in 1..Len(violations) |-> violations[k].start_time])

\* --------------------------------------------------- check_emergency_stop
DefaultBrakeThreshold == 200
DefaultDecelThreshold == 20

\* df[...][['timestamp', 'value']]
Project(d) == [i \in 1..Len(d) |-> [timestamp |-> d[i].timestamp, value |-> d[i].value]]

IndexOrders(n) == { p \in [1..n -> 1..n] : \A i, j \in 1..n : p[i] = p[j] => i = j }

\* sort_values('timestamp').reset_index(drop=True): the default sort kind
\* is not stable, so rows of equal timestamp may come out in any order
sort_values(s) ==
    { r \in { [i \in 1..Len(s) |-> s[p[i]]] : p \in IndexOrders(Len(s)) } :
        \A i \in 1..(Len(r) - 1) : r[i].timestamp <= r[i + 1].timestamp }

\* a float: NaN, or num / den with den > 0, or (den = 0) an infinity of the
\* sign of num
NaN == [nan |-> TRUE, num |-> 0, den |-> 1]

RECURSIVE GCD(_, _)
GCD(a, b) == IF b = 0 THEN a ELSE GCD(b, a % b)

Abs(x) == IF x < 0 THEN -x ELSE x

\* float64 division a / b for b >= 0
Div(a, b) ==
    IF b = 0
    THEN IF a = 0 THEN NaN
         ELSE [nan |-> FALSE, num |-> IF a > 0 THEN 1 ELSE -1, den |-> 0]
    ELSE LET g == GCD(Abs(a), b)
         IN [nan |-> FALSE, num |-> a \div g, den |-> b \div g]

Leq(x, y) ==
    IF x.den = 0 /\ y.den = 0 THEN x.num <= y.num
    ELSE x.num * y.den <= y.num * x.den

\* Series.max(): NaN is skipped; NaN when nothing is left
NanMax(S) ==
    LET real == { x \in S : ~x.nan }
    IN IF real = {} THEN NaN ELSE CHOOSE x \in real : \A y \in real : Leq(y, x)

\* pd.notna(x) and x > threshold, threshold a whole number of units per second
Exceeds(x, threshold) == ~x.nan /\ x.num > threshold * x.den

\* (faulty variant of Decel: each row is compared with the row after it)
Decel_Forward(speed) ==
    [i \in 1..Len(speed) |->
        IF i = Len(speed) THEN NaN
        ELSE Div(-(speed[i + 1].value.num - speed[i].value.num) * TicksPerSecond,
                 (speed[i + 1].timestamp - speed[i].timestamp) * ValueDen)]

\* speed_df['decel'] = -speed_df['value'].diff() / speed_df['timestamp'].diff()
Decel(speed) ==
    [i \in 1..Len(speed) |->
        IF i = 1 THEN NaN
        ELSE Div(-(speed[i].value.num - speed[i - 1].value.num) * TicksPerSecond,
                 (speed[i].timestamp - speed[i - 1].timestamp) * ValueDen)]

\* the rows of speed_df within 0.2 s of t
Nearby(speed, t) ==
    { i \in 1..Len(speed) :
        speed[i].timestamp >= t - WindowTicks /\ speed[i].timestamp <= t + WindowTicks }

\* speed_sorted and brake_sorted are the outcomes of the two sort_values calls
check_emergency_stop(d, brake_threshold, decel_threshold, speed_sorted, brake_sorted) ==
    IF ~HasColumns(d) THEN Raise("KeyError")
    ELSE IF Empty(BySignal(d, "Speed")) \/ Empty(BySignal(d, "BrakePressure"))
    THEN TestResult("Emergency Stop Detection", TRUE,
                    Msg("Insufficient speed or brake data for analysis", 0, 0), << >>, << >>)
    ELSE IF ObjectDtype(d)
            /\ \E i \in 2..Len(speed_sorted) :
                  speed_sorted[i].timestamp = speed_sorted[i - 1].timestamp
    THEN \* object / float64: Python's int / 0.0
         Raise("ZeroDivisionError")
    ELSE LET decel == Decel(speed_sorted)
             high_brake == Select(brake_sorted, LAMBDA row : Gt(row.value, brake_threshold))
             max_decel(t) == NanMax({ decel[i] : i \in Nearby(speed_sorted, t) })
             hit(row) == /\ Nearby(speed_sorted, row.timestamp) # {}
                         /\ Exceeds(max_decel(row.timestamp), decel_threshold)
             events == Select(high_brake, hit)
             violations == [k \in 1..Len(events) |->
                              [timestamp |-> events[k].timestamp,
                               brake_pressure |-> events[k].value.num,
                               deceleration |-> max_decel(events[k].timestamp),
                               brake_threshold |-> brake_threshold,
                               decel_threshold |-> decel_threshold]]
         IN IF Len(violations) = 0
            THEN TestResult("Emergency Stop Detection", TRUE,
                            Msg("No emergency stop events detected", 0, 0), << >>, << >>)
            ELSE TestResult("Emergency Stop Detection", FALSE,
                            Msg("Emergency stop detected", Len(violations), 0),
                            violations,
                            [k \in 1..Len(violations) |-> violations[k].timestamp])

\* ---------------------------------------------------- check_signal_bounds
\* the (message, signal) pairs of the database in declaration order
RECURSIVE Declarations(_)
Declarations(db) ==
    IF Len(db) = 0 THEN << >>
    ELSE Declarations(SubSeq(db, 1, Len(db) - 1))
         \o [j \in 1..Len(db[Len(db)].signals) |->
               [message |-> db[Len(db)].name, signal |-> db[Len(db)].signals[j]]]

\* (faulty variant of BuildBounds: the first declaration of a name is kept)
BuildBounds_FirstWins(decls) ==
    [name \in { decls[i].signal.name : i \in 1..Len(decls) } |->
        LET i == CHOOSE j \in 1..Len(decls) :
                    /\ decls[j].signal.name = name
                    /\ \A h \in 1..(j - 1) : decls[h].signal.name # name
        IN [min |-> decls[i].signal.minimum, max |-> decls[i].signal.maximum,
            message |-> decls[i].message]]

\* signal_bounds[signal.name] = {...}: a later declaration replaces an earlier
RECURSIVE BuildBounds(_)
BuildBounds(decls) ==
    IF Len(decls) = 0 THEN << >>
    ELSE LET last == decls[Len(decls)]
         IN (last.signal.name :>
                [min |-> last.signal.minimum, max |-> last.signal.maximum,
                 message |-> last.message])
            @@ BuildBounds(SubSeq(decls, 1, Len(decls) - 1))

signal_bounds(db) == BuildBounds(Declarations(db))

\* (faulty variant of OutOfBounds: the lower bound is not looked at)
OutOfBounds_MaxOnly(value, bounds) == bounds.max.has /\ Gt(value, bounds.max.v)

\* value < bounds['min'] or value > bounds['max']; an absent bound is
\* -inf / +inf, and every comparison with NaN is false
OutOfBounds(value, bounds) ==
    \/ bounds.min.has /\ Lt(value, bounds.min.v)
    \/ bounds.max.has /\ Gt(value, bounds.max.v)

\* "value is None or not isinstance(value, (int, float))": the row is skipped
NotNumeric(value) == value.tag = "str" \/ (value.tag = "none")

\* (faulty variant of ListOfSet: the list is returned as it was collected)
ListOfSet_KeepsDuplicates(xs) == xs

\* list(set(xs)): the distinct elements, in an order Python does not specify
\* but that is the same whenever the same list is given
ListOfSet(xs) ==
    LET S == Range(xs)
    IN CHOOSE r \in [1..Cardinality(S) -> S] : Range(r) = S

check_signal_bounds(d, db) ==
    LET bounds == signal_bounds(db)
        bad == Select(d, LAMBDA row :
                  /\ row.signal_name \in DOMAIN bounds
                  /\ ~NotNumeric(row.value)
                  /\ OutOfBounds(row.value, bounds[row.signal_name]))
        violations == [k \in 1..Len(bad) |->
                         [timestamp |-> bad[k].timestamp,
                          signal |-> bad[k].signal_name,
                          value |-> bad[k].value.num,
                          min |-> bounds[bad[k].signal_name].min,
                          max |-> bounds[bad[k].signal_name].max,
                          message |-> bounds[bad[k].signal_name].message]]
    IN IF Len(violations) = 0
       THEN TestResult("Signal Bounds Validation", TRUE,
                       Msg("All signal values within DBC-defined bounds", 0, 0),
                       << >>, << >>)
       ELSE TestResult("Signal Bounds Validation", FALSE,
                       Msg("Out-of-bounds violations", Len(violations), 0),
                       violations,
                       ListOfSet([k \in 1..Len(violations) |-> violations[k].timestamp]))

\* --------------------------------------------------------- check_checksum
\* int(x): truncation toward zero of the physical value x / ValueDen
int(x) == IF x >= 0 THEN x \div ValueDen ELSE -((-x) \div ValueDen)

\* pd.merge(left, right, on='timestamp', how='inner'): every left row with
\* every right row of the same timestamp, in the order of the left rows
merge(left, right) ==
    Concat([i \in 1..Len(left) |->
        LET match == Select(right, LAMBDA row : row.timestamp = left[i].timestamp)
        IN [j \in 1..Len(match) |->
              [timestamp |-> left[i].timestamp,
               pressure |-> left[i].value, checksum |-> match[j].value]]])

\* expected_checksum = pressure
expected_checksum(pressure) == pressure

check_checksum(d) ==
    IF ~HasColumns(d) THEN Raise("KeyError")
    ELSE LET brake_pressure == Project(BySignal(d, "BrakePressure"))
             brake_checksum == Project(BySignal(d, "BrakeChecksum"))
             merged == merge(brake_pressure, brake_checksum)
             bad == Select(merged, LAMBDA row :
                       int(row.checksum.num) # expected_checksum(int(row.pressure.num)))
             violations == [k \in 1..Len(bad) |->
                              [timestamp |-> bad[k].timestamp,
                               pressure |-> int(bad[k].pressure.num),
                               checksum |-> int(bad[k].checksum.num),
                               expected |-> expected_checksum(int(bad[k].pressure.num))]]
         IN IF Empty(brake_pressure) \/ Empty(brake_checksum)
            THEN TestResult("Checksum Validation", TRUE,
                            Msg("No brake checksum data available for validation", 0, 0),
                            << >>, << >>)
            ELSE IF Len(violations) = 0
            THEN TestResult("Checksum Validation", TRUE,
                            Msg("All brake message checksums valid", 0, 0), << >>, << >>)
            ELSE TestResult("Checksum Validation", FALSE,
                            Msg("Checksum errors detected", Len(violations), 0),
                            violations,
                            [k \in 1..Len(violations) |-> violations[k].timestamp])

\* ---------------------------------------------------------- run_all_tests
\* the list of the five results; an exception raised by one of the calls
\* leaves run_all_tests at once and no list is returned
ResultsOrRaise(results) ==
    LET failed == { i \in 1..Len(results) : results[i].raised }
    IN IF failed = {}
       THEN [raised |-> FALSE, exc |-> "", results |-> results]
       ELSE [raised |-> TRUE,
             exc |-> results[CHOOSE i \in failed : \A j \in failed : i <= j].exc,
             results |-> << >>]

\* the five calls in order
run_all_tests(d, db, speed_sorted, brake_sorted) ==
    ResultsOrRaise(<< check_overspeed(d, DefaultThresholdKmh * ValueDen),
                      check_timeout(d, DefaultTimeoutSeconds * TicksPerSecond, ""),
                      check_emergency_stop(d, DefaultBrakeThreshold * ValueDen,
                                           DefaultDecelThreshold, speed_sorted, brake_sorted),
                      check_signal_bounds(d, db),
                      check_checksum(d) >>)

\* ------------------------------------------ inputs shared between calls
CheckNames ==
    << "check_overspeed", "check_timeout", "check_emergency_stop",
       "check_signal_bounds", "check_checksum" >>

\* (faulty variant of FrameAfter: check_emergency_stop sorts the caller's
\* frame by timestamp instead of a copy of it)
FrameAfter_SortedInPlace(fn, d) ==
    IF fn = "check_emergency_stop"
    THEN LET ts == SortedSeq({ d[i].timestamp : i \in 1..Len(d) })
         IN Concat([k \in 1..Len(ts) |->
                      Filter(d, { i \in 1..Len(d) : d[i].timestamp = ts[k] })])
    ELSE d

\* (faulty variant of FrameAfter: check_overspeed narrows the caller's frame
\* to the Speed rows)
FrameAfter_SpeedOnly(fn, d) ==
    IF fn = "check_overspeed" THEN BySignal(d, "Speed") ELSE d

\* the caller's DataFrame after check fn returned: every check reads df and
\* writes only to frames of its own (.copy(), a boolean-mask selection, the
\* results of sort_values, rename and merge), so the caller's rows stay
FrameAfter(fn, d) == d

\* the frame the k-th call finds when the five checks are called in order
RECURSIVE FrameBefore(_, _, _)
FrameBefore(order, k, d) ==
    IF k = 1 THEN d
    ELSE FrameAfter(CheckNames[order[k - 1]], FrameBefore(order, k - 1, d))

\* the c-th call of run_all_tests, with the arguments run_all_tests gives it
Check(c, d, db, speed_sorted, brake_sorted) ==
    CASE c = 1 -> check_overspeed(d, DefaultThresholdKmh * ValueDen)
      [] c = 2 -> check_timeout(d, DefaultTimeoutSeconds * TicksPerSecond, "")
      [] c = 3 -> check_emergency_stop(d, DefaultBrakeThreshold * ValueDen,
                                       DefaultDecelThreshold, speed_sorted, brake_sorted)
      [] c = 4 -> check_signal_bounds(d, db)
      [] c = 5 -> check_checksum(d)

\* the five calls made in another order on the one shared frame: the outcome
\* of each check, by its place in run_all_tests
run_checks(order, d, db, speed_sorted, brake_sorted) ==
    [c \in 1..5 |->
        LET k == CHOOSE j \in 1..5 : order[j] = c
        IN Check(c, FrameBefore(order, k, d), db, speed_sorted, brake_sorted)]

\* (faulty variant of MessagesAfter: decoding consumes the payloads)
MessagesAfter_PayloadConsumed(msgs) ==
    [i \in 1..Len(msgs) |-> [msgs[i] EXCEPT !.data = << >>]]

\* the frame list after decode_signals returned: the loop reads msg['id'],
\* msg['timestamp'] and msg['data'] and assigns to none of them
MessagesAfter(msgs) == msgs

\* -------------------------------------------------- get_signal_timeseries
\* the rows of one signal, as (timestamp, value), in the order sort_values
\* left them (sorted); the column lookup fails on a frame without columns
get_signal_timeseries(d, signal_name, sorted) ==
    IF ~HasColumns(d)
    THEN [raised |-> TRUE, exc |-> "KeyError", rows |-> << >>]
    ELSE [raised |-> FALSE, exc |-> "", rows |-> sorted]

\* ------------------------------------------------------ summarize_results
\* (faulty variant of pass_rate: the fraction is not scaled to a percentage)
pass_rate_Fraction(passed, total) ==
    IF total > 0 THEN Div(passed, total) ELSE Div(0, 1)

\* passed / len(results) * 100 if results else 0, as an exact quotient
pass_rate(passed, total) ==
    IF total > 0 THEN Div(passed * 100, total) ELSE Div(0, 1)

summarize_results(results) ==
    LET passed == Cardinality({ i \in 1..Len(results) : results[i].passed })
        failed == Cardinality({ i \in 1..Len(results) : ~results[i].passed })
    IN [raised |-> FALSE,
        total |-> Len(results),
        passed |-> passed,
        failed |-> failed,
        pass_rate |-> pass_rate(passed, Len(results)),
        results |-> [i \in 1..Len(results) |-> to_dict(results[i])]]

\* ------------------------------------------------------------- pipeline
\* decode_signals, then run_all_tests, then summarize_results
\* the outcome of run_all_tests with its summary
Summarized(r) ==
    [raised |-> r.raised, exc |-> r.exc, results |-> r.results,
     summary |-> IF r.raised THEN [raised |-> TRUE]
                 ELSE summarize_results(r.results)]

pipeline(msgs, db, speed_sorted, brake_sorted) ==
    Summarized(run_all_tests(decode_signals(msgs, db), db, speed_sorted, brake_sorted))

\* ------------------------------------------------------------------ state
VARIABLES
    dbc,        \* the loaded database
    messages,   \* the frames decode_signals has consumed, in arrival order
    df,         \* decoded_data / the DataFrame built from it
    pc,         \* "decoding" | "decoded" | "called"
    call        \* the last call made on df: its function, arguments, outcome

vars == << dbc, messages, df, pc, call >>

NoCall == [fn |-> "none"]

Init ==
    /\ dbc \in Databases
    /\ messages = << >>
    /\ df = << >>
    /\ pc = "decoding"
    /\ call = NoCall

\* one iteration of "for msg in messages" (parse_log.py:125-166)
DecodeFrame(msg) ==
    /\ pc = "decoding"
    /\ IF msg \in BadFrames(dbc)
       THEN Cardinality({ i \in 1..Len(messages) : messages[i] \in BadFrames(dbc) })
               < MaxBadFrames
       ELSE Cardinality({ i \in 1..Len(messages) : messages[i] \notin BadFrames(dbc) })
               < MaxFrames
    /\ messages' = Append(messages, msg)
    /\ df' = extend(df, DecodeOne(msg, dbc))
    /\ UNCHANGED << dbc, pc, call >>

\* return pd.DataFrame(decoded_data)
FinishDecode ==
    /\ pc = "decoding"
    /\ pc' = "decoded"
    /\ UNCHANGED << dbc, messages, df, call >>

\* ---------------------------------------------------------- calls on df
OverspeedThresholds == { DefaultThresholdKmh * ValueDen, 210 * ValueDen }
TimeoutInputs == { 0, 1 }
MessageNames == { "", "VehicleSpeed" }

CheckOverspeed(threshold_kmh) ==
    /\ pc = "decoded"
    /\ call' = [fn |-> "check_overspeed", args |-> << threshold_kmh >>,
                out |-> check_overspeed(df, threshold_kmh)]
    /\ pc' = "called"
    /\ df' = FrameAfter("check_overspeed", df)
    /\ UNCHANGED << dbc, messages >>

CheckTimeout(timeout_seconds, message_name) ==
    /\ pc = "decoded"
    /\ call' = [fn |-> "check_timeout", args |-> << timeout_seconds, message_name >>,
                out |-> check_timeout(df, timeout_seconds, message_name)]
    /\ pc' = "called"
    /\ df' = FrameAfter("check_timeout", df)
    /\ UNCHANGED << dbc, messages >>

BrakeThresholds == { DefaultBrakeThreshold * ValueDen, 210 * ValueDen }
DecelThresholds == { DefaultDecelThreshold, 600 }

SpeedSorts == sort_values(Project(BySignal(df, "Speed")))
BrakeSorts == sort_values(Project(BySignal(df, "BrakePressure")))

CheckEmergencyStop(brake_threshold, decel_threshold) ==
    /\ pc = "decoded"
    /\ \E sp \in SpeedSorts, bp \in BrakeSorts :
          call' = [fn |-> "check_emergency_stop",
                   args |-> << brake_threshold, decel_threshold >>,
                   speed_sorted |-> sp, brake_sorted |-> bp,
                   out |-> check_emergency_stop(df, brake_threshold, decel_threshold, sp, bp)]
    /\ pc' = "called"
    /\ df' = FrameAfter("check_emergency_stop", df)
    /\ UNCHANGED << dbc, messages >>

CheckSignalBounds ==
    /\ pc = "decoded"
    /\ call' = [fn |-> "check_signal_bounds", args |-> << >>,
                out |-> check_signal_bounds(df, dbc)]
    /\ pc' = "called"
    /\ df' = FrameAfter("check_signal_bounds", df)
    /\ UNCHANGED << dbc, messages >>

CheckChecksum ==
    /\ pc = "decoded"
    /\ call' = [fn |-> "check_checksum", args |-> << >>, out |-> check_checksum(df)]
    /\ pc' = "called"
    /\ df' = FrameAfter("check_checksum", df)
    /\ UNCHANGED << dbc, messages >>

RunAllTests ==
    /\ pc = "decoded"
    /\ \E sp \in SpeedSorts, bp \in BrakeSorts :
          call' = [fn |-> "run_all_tests", args |-> << >>,
                   speed_sorted |-> sp, brake_sorted |-> bp,
                   out |-> run_all_tests(df, dbc, sp, bp)]
    /\ pc' = "called"
    /\ df' = FrameBefore(<< 1, 2, 3, 4, 5 >>, 6, df)
    /\ UNCHANGED << dbc, messages >>

\* the five checks called in another order than run_all_tests calls them
Orders == { << 5, 4, 3, 2, 1 >>, << 4, 5, 1, 2, 3 >>, << 3, 1, 4, 5, 2 >> }

RunChecks(order) ==
    /\ pc = "decoded"
    /\ \E sp \in SpeedSorts, bp \in BrakeSorts :
          call' = [fn |-> "run_checks", args |-> << order >>,
                   speed_sorted |-> sp, brake_sorted |-> bp,
                   out |-> run_checks(order, df, dbc, sp, bp)]
    /\ df' = FrameBefore(order, 6, df)
    /\ pc' = "called"
    /\ UNCHANGED << dbc, messages >>

\* run_analysis: the frames are decoded, checked and summarised
RunPipeline ==
    /\ pc = "decoded"
    /\ \E sp \in SpeedSorts, bp \in BrakeSorts :
          call' = [fn |-> "pipeline", args |-> << >>,
                   speed_sorted |-> sp, brake_sorted |-> bp,
                   out |-> pipeline(messages, dbc, sp, bp)]
    /\ messages' = MessagesAfter(messages)
    /\ df' = FrameBefore(<< 1, 2, 3, 4, 5 >>, 6, decode_signals(messages, dbc))
    /\ pc' = "called"
    /\ UNCHANGED dbc

\* the same frame list and database are run through the pipeline once more;
\* sort_values is a function of the rows it is given, so a series that is
\* the same as in the first run comes out in the same order
RunPipelineAgain ==
    /\ pc = "called"
    /\ call.fn = "pipeline"
    /\ LET d == decode_signals(messages, dbc)
           speed == Project(BySignal(d, "Speed"))
           brake == Project(BySignal(d, "BrakePressure"))
       IN /\ \E sp \in sort_values(speed), bp \in sort_values(brake) :
                /\ speed = Project(BySignal(df, "Speed")) => sp = call.speed_sorted
                /\ brake = Project(BySignal(df, "BrakePressure")) => bp = call.brake_sorted
                /\ call' = [fn |-> "pipeline_again", args |-> << >>,
                            speed_sorted |-> sp, brake_sorted |-> bp,
                            first |-> call.out,
                            out |-> pipeline(messages, dbc, sp, bp)]
          /\ df' = FrameBefore(<< 1, 2, 3, 4, 5 >>, 6, d)
    /\ messages' = MessagesAfter(messages)
    /\ UNCHANGED << dbc, pc >>

SeriesNames == { "Speed", "BrakePressure" }

GetSignalTimeseries(signal_name) ==
    /\ pc = "decoded"
    /\ \E sorted \in sort_values(Project(BySignal(df, signal_name))) :
          call' = [fn |-> "get_signal_timeseries", args |-> << signal_name >>,
                   out |-> get_signal_timeseries(df, signal_name, sorted)]
    /\ pc' = "called"
    /\ UNCHANGED << dbc, messages, df >>

\* summarize_results on the first n results run_all_tests returned
SummarizeResults(n) ==
    /\ pc = "called"
    /\ call.fn = "run_all_tests"
    /\ ~call.out.raised
    /\ LET results == SubSeq(call.out.results, 1, n)
       IN call' = [fn |-> "summarize_results", args |-> << results >>,
                   out |-> summarize_results(results)]
    /\ UNCHANGED << dbc, messages, df, pc >>

\* the caller takes the outcome; df may be handed to another call
Return ==
    /\ pc = "called"
    /\ pc' = "decoded"
    /\ call' = NoCall
    /\ UNCHANGED << dbc, messages, df >>

Next ==
    \/ \E msg \in GoodFrames(dbc) \cup BadFrames(dbc) : DecodeFrame(msg)
    \/ FinishDecode
    \/ \E x \in OverspeedThresholds : CheckOverspeed(x)
    \/ \E x \in TimeoutInputs, n \in MessageNames : CheckTimeout(x, n)
    \/ \E b \in BrakeThresholds, x \in DecelThresholds : CheckEmergencyStop(b, x)
    \/ CheckSignalBounds
    \/ CheckChecksum
    \/ RunAllTests
    \/ \E order \in Orders : RunChecks(order)
    \/ RunPipeline
    \/ RunPipelineAgain
    \/ \E n \in SeriesNames : GetSignalTimeseries(n)
    \/ \E n \in 0..5 : SummarizeResults(n)
    \/ Return

Spec == Init /\ [][Next]_vars

\* ================================================================= claims
Out == call.out
Returned(fn) == call.fn = fn /\ ~call.out.raised
Clean(r) == r.details = << >> /\ r.timestamps = << >>

SpeedRows == { i \in 1..Len(df) : df[i].signal_name = "Speed" }
PressureRows == { i \in 1..Len(df) : df[i].signal_name = "BrakePressure" }
ChecksumRows == { i \in 1..Len(df) : df[i].signal_name = "BrakeChecksum" }

\* the timestamps check_timeout is asked about: those of all rows, or of
\* the rows of the message named
ScopeRows(name) == { i \in 1..Len(df) : name = "" \/ df[i].message_name = name }
ScopeTimes(name) == { df[i].timestamp : i \in ScopeRows(name) }

\* C1 (as claimed): run_all_tests returns five results for every decoded
\* sample sequence, the one decoded from a trace without frames included;
\* none of its checks raises.
C1_RunAllTestsNeverRaises ==
    call.fn = "run_all_tests" => ~Out.raised /\ Len(Out.results) = 5

\* C2 (as claimed): check_timeout passes whenever the in-scope samples have
\* fewer than two distinct timestamps.
C2_PassesBelowTwoTimestamps ==
    call.fn = "check_timeout" /\ Cardinality(ScopeTimes(call.args[2])) < 2
        => ~Out.raised /\ Out.passed

\* C2 (amended): check_timeout passes, with no violation record, whenever
\* the in-scope samples have exactly one distinct timestamp, for every
\* timeout; with no in-scope sample at all it fails.
C2_PassesOnOneTimestamp ==
    call.fn = "check_timeout" =>
        /\ Cardinality(ScopeTimes(call.args[2])) = 1
              => ~Out.raised /\ Out.passed /\ Clean(Out)
        /\ ScopeRows(call.args[2]) = {}
              => ~Out.raised /\ ~Out.passed /\ Clean(Out)

C2_Witness ==
    /\ call.fn = "check_timeout"
    /\ call.args[1] = 0
    /\ Cardinality(ScopeRows(call.args[2])) >= 2
    /\ Cardinality(ScopeTimes(call.args[2])) = 1
    /\ Out.passed

\* C3: check_overspeed and check_timeout fail, with no violation record, on
\* an empty sample set; check_overspeed also fails on a non-empty sample set
\* that holds no Speed sample.
C3_FailOnNoData ==
    /\ call.fn = "check_overspeed" /\ SpeedRows = {}
          => ~Out.raised /\ ~Out.passed /\ Clean(Out)
    /\ call.fn = "check_timeout" /\ Len(df) = 0
          => ~Out.raised /\ ~Out.passed /\ Clean(Out)

C3_Witness ==
    /\ call.fn = "check_overspeed"
    /\ Len(df) > 0
    /\ SpeedRows = {}
    /\ ~Out.passed

\* C4: given at least one Speed sample, check_overspeed fails iff a Speed
\* sample is strictly above the threshold, and its records are one per such
\* sample: the sample's timestamp and value, the threshold and the positive
\* excess value - threshold.
C4_OverspeedRecords ==
    call.fn = "check_overspeed" /\ SpeedRows # {} =>
        LET threshold == call.args[1]
            over == SortedSeq({ i \in SpeedRows : df[i].value.num > threshold })
        IN /\ ~Out.raised
           /\ Out.passed <=> (Len(over) = 0)
           /\ Len(Out.details) = Len(over)
           /\ \A k \in 1..Len(over) :
                /\ Out.details[k] =
                      [timestamp |-> df[over[k]].timestamp,
                       speed |-> df[over[k]].value.num,
                       threshold |-> threshold,
                       excess |-> df[over[k]].value.num - threshold]
                /\ Out.details[k].speed > threshold
                /\ Out.details[k].excess > 0

C4_Witness ==
    /\ call.fn = "check_overspeed"
    /\ Len(Out.details) = 2
    /\ \E i \in SpeedRows : df[i].value.num <= call.args[1]

\* C5: given at least two distinct in-scope timestamps, the records of
\* check_timeout are exactly the pairs (a, b) of neighbours in the sorted
\* set of timestamps with b - a strictly above the timeout, as start_time,
\* end_time, gap_duration and threshold; it fails iff there is such a pair.
C5_TimeoutRecords ==
    call.fn = "check_timeout" /\ Cardinality(ScopeTimes(call.args[2])) >= 2 =>
        LET timeout == call.args[1]
            T == ScopeTimes(call.args[2])
            gaps == { [start_time |-> a, end_time |-> b,
                       gap_duration |-> b - a, threshold |-> timeout] :
                      <<a, b>> \in { p \in T \X T :
                          /\ p[1] < p[2]
                          /\ ~\E c \in T : p[1] < c /\ c < p[2]
                          /\ p[2] - p[1] > timeout } }
        IN /\ ~Out.raised
           /\ Range(Out.details) = gaps
           /\ Len(Out.details) = Cardinality(gaps)
           /\ Out.passed <=> (gaps = {})

C5_Witness ==
    /\ call.fn = "check_timeout"
    /\ call.args[1] = 0
    /\ Cardinality(ScopeTimes(call.args[2])) = 3
    /\ Len(Out.details) = 2

\* ---- check_emergency_stop
\* the deceleration estimate of the i-th row of the sorted Speed series is
\* above x: the first row has no estimate; over a zero time step the
\* estimate is +infinity when the speed fell
EstimateAbove(speed, i, x) ==
    /\ i >= 2
    /\ LET dv == speed[i].value.num - speed[i - 1].value.num
           dt == speed[i].timestamp - speed[i - 1].timestamp
       IN IF dt > 0 THEN (-dv) * TicksPerSecond > x * dt * ValueDen ELSE dv < 0

\* the rows of the sorted brake series check_emergency_stop is to report
EmergencyRows(speed, brake, brake_threshold, decel_threshold) ==
    { k \in 1..Len(brake) :
        /\ brake[k].value.num > brake_threshold
        /\ \E i \in 1..Len(speed) :
              /\ speed[i].timestamp >= brake[k].timestamp - WindowTicks
              /\ speed[i].timestamp <= brake[k].timestamp + WindowTicks
              /\ EstimateAbove(speed, i, decel_threshold) }

\* C6 (as claimed): with both series non-empty check_emergency_stop returns
\* a result whose records are one per brake sample with pressure above
\* brake_threshold and a maximum deceleration estimate above decel_threshold
\* in the closed window of 0.2 s around it; it fails iff there is a record.
C6_EmergencyRecords ==
    call.fn = "check_emergency_stop" /\ SpeedRows # {} /\ PressureRows # {} =>
        LET rows == SortedSeq(EmergencyRows(call.speed_sorted, call.brake_sorted,
                                            call.args[1], call.args[2]))
        IN /\ ~Out.raised
           /\ Len(Out.details) = Len(rows)
           /\ \A k \in 1..Len(rows) :
                /\ Out.details[k].timestamp = call.brake_sorted[rows[k]].timestamp
                /\ Out.details[k].brake_pressure = call.brake_sorted[rows[k]].value.num
           /\ Out.passed <=> (Len(rows) = 0)

\* C7 (as claimed): check_emergency_stop passes, with no record, whenever
\* the Speed series or the BrakePressure series is empty.
C7_PassesOnEmptySeries ==
    call.fn = "check_emergency_stop" /\ (SpeedRows = {} \/ PressureRows = {})
        => ~Out.raised /\ Out.passed /\ Clean(Out)

\* ---- check_signal_bounds
\* the declarations of a signal name, as (message index, signal index)
DeclaredAt(name) ==
    { p \in (1..Len(dbc)) \X (1..2) :
        p[2] <= Len(dbc[p[1]].signals) /\ dbc[p[1]].signals[p[2]].name = name }

\* the declaration that is in force for a name: the last one in the database
InForce(name) ==
    LET p == CHOOSE q \in DeclaredAt(name) :
                \A r \in DeclaredAt(name) :
                    r[1] < q[1] \/ (r[1] = q[1] /\ r[2] <= q[2])
    IN dbc[p[1]].signals[p[2]]

OutsideDeclared(i) ==
    /\ DeclaredAt(df[i].signal_name) # {}
    /\ df[i].value.tag = "num"
    /\ LET sig == InForce(df[i].signal_name)
       IN \/ sig.minimum.has /\ df[i].value.num < sig.minimum.v
          \/ sig.maximum.has /\ df[i].value.num > sig.maximum.v

ChecksumPairs ==
    { p \in PressureRows \X ChecksumRows : df[p[1]].timestamp = df[p[2]].timestamp }

\* C9 (as claimed): whenever check_checksum returns, it has one record per
\* pair of a BrakePressure and a BrakeChecksum sample of the same timestamp
\* whose checksum differs from the pressure value, and it fails iff there
\* is such a pair.
C9_ChecksumRecords ==
    Returned("check_checksum") =>
        LET bad == { p \in ChecksumPairs : df[p[2]].value.num # df[p[1]].value.num }
        IN /\ Len(Out.details) = Cardinality(bad)
           /\ Out.passed <=> (bad = {})

\* C10 (as claimed): check_checksum passes, with no record, whenever the
\* BrakePressure or the BrakeChecksum series is absent or the two share no
\* timestamp.
C10_PassesWithoutPairs ==
    call.fn = "check_checksum" /\ ChecksumPairs = {}
        => ~Out.raised /\ Out.passed /\ Clean(Out)

\* ---- decode_signals
\* the message the database lists for a frame's id, if any
Listed(msg) == \E k \in 1..Len(dbc) : dbc[k].frame_id = msg.id
MessageOf(msg) == dbc[CHOOSE k \in 1..Len(dbc) : dbc[k].frame_id = msg.id]
Decodable(msg) == Listed(msg) /\ Len(msg.data) >= MessageOf(msg).length

\* the number of samples a frame is to give
SamplesOf(msg) == IF Decodable(msg) THEN Len(MessageOf(msg).signals) ELSE 1

\* the samples of the i-th frame are expected at Block(i) of the output
RECURSIVE Offset(_)
Offset(i) == IF i = 1 THEN 0 ELSE Offset(i - 1) + SamplesOf(messages[i - 1])
Block(i) == (Offset(i) + 1)..(Offset(i) + SamplesOf(messages[i]))

\* C11: when decode_signals has returned it has handled every frame of its
\* input: the output holds
\* the samples of all frames consumed, a frame of an unknown id or with a
\* failing decode gives a sample instead of ending the loop, and a frame
\* that decodes gives decoded samples also when it follows a failing one.
C11_EveryFrameDecoded ==
    pc = "decoded" =>
    /\ Len(df) = Offset(Len(messages) + 1)
    /\ \A i \in 1..Len(messages) :
         /\ Block(i) # {}
         /\ Block(i) \subseteq 1..Len(df)
         /\ \A r \in Block(i) :
              /\ r <= Len(df) => df[r].message_id = messages[i].id
              /\ r <= Len(df) /\ Decodable(messages[i])
                    => df[r].message_name = MessageOf(messages[i]).name
                       /\ df[r].value.tag = "num"

C11_Witness ==
    /\ pc = "decoded"
    /\ \E i, j \in 1..Len(messages) :
         /\ i < j
         /\ ~Decodable(messages[i])
         /\ Decodable(messages[j])
         /\ \E r \in Block(j) : df[r].message_name = MessageOf(messages[j]).name

\* C12: per frame the output holds exactly one UNKNOWN/raw sample without
\* value when the id is not in the database, exactly one ERROR sample with
\* the failure text as value when the decode fails, and otherwise exactly
\* one sample per signal of the message, with the message's name and the
\* frame's timestamp, id and payload.
C12_SamplesPerFrame ==
    pc = "decoded" =>
    /\ Len(df) = Offset(Len(messages) + 1)
    /\ \A i \in 1..Len(messages) : \A r \in Block(i) :
         r <= Len(df) =>
           LET msg == messages[i]
               row == df[r]
           IN /\ row.timestamp = msg.timestamp
              /\ row.message_id = msg.id
              /\ row.raw_data = Hex(msg.data)
              /\ ~Listed(msg) =>
                    /\ Cardinality(Block(i)) = 1
                    /\ row.message_name = "UNKNOWN"
                    /\ row.signal_name = "raw"
                    /\ row.value.tag = "none"
              /\ Listed(msg) /\ ~Decodable(msg) =>
                    /\ Cardinality(Block(i)) = 1
                    /\ row.message_name = "ERROR"
                    /\ row.value.tag = "str"
              /\ Decodable(msg) =>
                    LET sig == MessageOf(msg).signals[r - Offset(i)]
                    IN /\ Cardinality(Block(i)) = Len(MessageOf(msg).signals)
                       /\ row.message_name = MessageOf(msg).name
                       /\ row.signal_name = sig.name
                       /\ row.value = Num(msg.data[sig.byte] * sig.scale + sig.offset)

C12_Witness ==
    /\ pc = "decoded"
    /\ \E i \in 1..Len(messages) : Listed(messages[i]) /\ ~Decodable(messages[i])
    /\ \E i \in 1..Len(messages) :
         Decodable(messages[i]) /\ Len(MessageOf(messages[i]).signals) = 2
    /\ \E r \in 1..Len(df) : df[r].message_name = "ERROR"
    /\ \E r \in 1..Len(df) : df[r].signal_name = "BrakeChecksum"

\* the frame a row of the output belongs to
FrameOf(r) == CHOOSE i \in 1..Len(messages) : r \in Block(i)

\* C13: the output is in frame-arrival order: the rows of an earlier frame
\* come before the rows of a later frame whatever the timestamps are, so row
\* r carries the timestamp and payload of the frame whose turn it is.
C13_ArrivalOrder ==
    pc = "decoded" =>
    /\ Len(df) = Offset(Len(messages) + 1)
    /\ \A r, q \in 1..Len(df) :
         r < q =>
           /\ FrameOf(r) <= FrameOf(q)
           /\ df[r].timestamp = messages[FrameOf(r)].timestamp
           /\ df[q].timestamp = messages[FrameOf(q)].timestamp
           /\ df[r].raw_data = Hex(messages[FrameOf(r)].data)
           /\ df[q].raw_data = Hex(messages[FrameOf(q)].data)

C13_Witness ==
    /\ pc = "decoded"
    /\ \E r, q \in 1..Len(df) :
         /\ r < q
         /\ FrameOf(r) < FrameOf(q)
         /\ df[q].timestamp < df[r].timestamp
         /\ messages[FrameOf(q)].timestamp < messages[FrameOf(r)].timestamp

\* ---- run_all_tests
\* C14 (as claimed): run_all_tests returns, whatever the trace, exactly five
\* results named, in this order, Overspeed Detection, Message Timeout
\* Detection, Emergency Stop Detection, Signal Bounds Validation, Checksum
\* Validation.
C14_FiveNamedResults ==
    call.fn = "run_all_tests" =>
        /\ ~Out.raised
        /\ [i \in 1..Len(Out.results) |-> Out.results[i].name]
              = << "Overspeed Detection", "Message Timeout Detection",
                   "Emergency Stop Detection", "Signal Bounds Validation",
                   "Checksum Validation" >>

\* ---- summarize_results
\* C15: summarize_results gives total = number of results, passed = number
\* of results with the pass flag, failed = number without it, so passed +
\* failed = total; pass_rate = passed / total * 100, and 0 for no result, so
\* 0 <= pass_rate <= 100; the detail list has one entry per result, in order.
C15_Summary ==
    call.fn = "summarize_results" =>
        LET rs == call.args[1]
            n == Len(rs)
            ok == { i \in 1..n : rs[i].passed }
        IN /\ Out.total = n
           /\ Out.passed = Cardinality(ok)
           /\ Out.failed = n - Cardinality(ok)
           /\ Out.passed + Out.failed = Out.total
           /\ ~Out.pass_rate.nan /\ Out.pass_rate.den > 0
           /\ IF n > 0
              THEN Out.pass_rate.num * n = Cardinality(ok) * 100 * Out.pass_rate.den
              ELSE Out.pass_rate.num = 0
           /\ 0 <= Out.pass_rate.num
           /\ Out.pass_rate.num <= 100 * Out.pass_rate.den
           /\ Len(Out.results) = n
           /\ \A i \in 1..n :
                /\ Out.results[i].name = rs[i].name
                /\ Out.results[i].passed = rs[i].passed
                /\ Out.results[i].details = rs[i].details
                /\ Out.results[i].timestamps = rs[i].timestamps
                /\ Out.results[i].violation_count = Len(rs[i].timestamps)

C15_Witness ==
    /\ call.fn = "summarize_results"
    /\ Out.total = 5
    /\ Out.passed = 3
    /\ Out.failed = 2
    /\ Out.pass_rate = [nan |-> FALSE, num |-> 60, den |-> 1]

\* ---- check_signal_bounds, timestamps
\* C16: the timestamp list of check_signal_bounds holds each timestamp at
\* which a sample is out of bounds exactly once, while the record list holds
\* one record per sample out of bounds.
C16_TimestampsDeduplicated ==
    Returned("check_signal_bounds") =>
        LET bad == { i \in 1..Len(df) : OutsideDeclared(i) }
            ts == Out.timestamps
        IN /\ \A a, b \in 1..Len(ts) : ts[a] = ts[b] => a = b
           /\ Range(ts) = { df[i].timestamp : i \in bad }
           /\ Len(Out.details) = Cardinality(bad)

C16_Witness ==
    /\ Returned("check_signal_bounds")
    /\ Len(Out.details) = 2
    /\ Out.details[1].timestamp = Out.details[2].timestamp
    /\ Out.details[1].signal # Out.details[2].signal
    /\ Len(Out.timestamps) = 1

\* ---- get_signal_timeseries
\* the rows of df of one signal, ordered by timestamp and, within one
\* timestamp, by position in df
RECURSIVE InStableOrder(_)
InStableOrder(S) ==
    IF S = {} THEN << >>
    ELSE LET i == CHOOSE x \in S : \A y \in S :
                      \/ df[x].timestamp < df[y].timestamp
                      \/ (df[x].timestamp = df[y].timestamp /\ x <= y)
         IN << [timestamp |-> df[i].timestamp, value |-> df[i].value] >>
               \o InStableOrder(S \ {i})

CheckFns == { CheckNames[c] : c \in 1..5 }

\* C19: a step in which one of the five checks is called and returns leaves
\* the decoded samples (rows, order, columns, values) and the database as
\* they were.
C19_ChecksLeaveInputs ==
    [][call'.fn \in CheckFns => df' = df /\ dbc' = dbc]_vars

\* a check has returned on samples that are not in timestamp order and hold
\* several signals
C19_Witness ==
    /\ call.fn = "check_emergency_stop"
    /\ ~Out.raised
    /\ Len(Out.details) > 0
    /\ \E i, j \in 1..Len(df) : i < j /\ df[j].timestamp < df[i].timestamp
    /\ \E i \in 1..Len(df) : df[i].signal_name # "Speed"
    /\ df = decode_signals(messages, dbc)

SubSeqOf(a, b) == \E keep \in SUBSET (1..Len(b)) : Filter(b, keep) = a

\* the sample a violation record of check_overspeed is about
OverspeedKeys(r) ==
    [i \in 1..Len(r.details) |-> << r.details[i].timestamp, r.details[i].speed >>]

\* the gap a violation record of check_timeout is about
TimeoutKeys(r) ==
    [i \in 1..Len(r.details) |-> << r.details[i].start_time, r.details[i].end_time >>]

\* the brake sample and estimate a record of check_emergency_stop is about
EmergencyKeys(r) ==
    [i \in 1..Len(r.details) |->
        << r.details[i].timestamp, r.details[i].brake_pressure, r.details[i].deceleration >>]

\* result 'larger' was found at a larger threshold than result 'smaller'
NoMoreViolations(larger, smaller, Keys(_)) ==
    /\ larger.raised = smaller.raised
    /\ ~smaller.raised =>
          /\ SubSeqOf(Keys(larger), Keys(smaller))
          /\ SubSeqOf(larger.timestamps, smaller.timestamps)
          /\ smaller.passed => larger.passed

\* C21: on the samples a check was called on, the same check with a larger
\* threshold (check_overspeed: threshold; check_timeout: timeout, same
\* filter; check_emergency_stop: brake_threshold or decel_threshold, the
\* other one kept) reports a sub-list of the violations reported at the
\* smaller threshold, and passes if the check passed at the smaller one.
C21_ThresholdMonotone ==
    /\ call.fn = "check_overspeed" =>
          \A t \in OverspeedThresholds :
             t >= call.args[1] =>
                NoMoreViolations(check_overspeed(df, t), Out, OverspeedKeys)
    /\ call.fn = "check_timeout" =>
          \A t \in TimeoutInputs :
             t >= call.args[1] =>
                NoMoreViolations(check_timeout(df, t, call.args[2]), Out, TimeoutKeys)
    /\ call.fn = "check_emergency_stop" =>
          \A b \in BrakeThresholds, a \in DecelThresholds :
             b >= call.args[1] /\ a >= call.args[2] =>
                NoMoreViolations(check_emergency_stop(df, b, a, call.speed_sorted,
                                                      call.brake_sorted),
                                 Out, EmergencyKeys)

\* check_overspeed has failed at the default threshold on samples on which
\* it passes at the larger threshold
C21_Witness ==
    /\ call.fn = "check_overspeed"
    /\ call.args[1] = DefaultThresholdKmh * ValueDen
    /\ Len(Out.details) >= 2
    /\ check_overspeed(df, 210 * ValueDen).passed

\* ---- the deceleration estimate
\* the rows of the sorted Speed series that have an estimate and lie within
\* 0.2 s of t
Estimated(speed, t) ==
    { i \in 2..Len(speed) :
        speed[i].timestamp >= t - WindowTicks /\ speed[i].timestamp <= t + WindowTicks }

\* -(speed - previous speed) / (timestamp - previous timestamp) of row i >= 2
Estimate(speed, i) ==
    Div(-(speed[i].value.num - speed[i - 1].value.num) * TicksPerSecond,
        (speed[i].timestamp - speed[i - 1].timestamp) * ValueDen)

\* C23: a record of check_emergency_stop is about a brake sample with an
\* estimated Speed row in its window, and its deceleration is the largest
\* estimate of those rows, each estimate taken against the row before it in
\* the sorted Speed series wherever that row lies; a brake sample whose
\* window holds only the first Speed row, or none, has no record.
C23_PredecessorEstimate ==
    call.fn = "check_emergency_stop" =>
        /\ \A k \in 1..Len(Out.details) :
              LET W == Estimated(call.speed_sorted, Out.details[k].timestamp)
              IN /\ W # {}
                 /\ \E i \in W :
                       /\ Out.details[k].deceleration = Estimate(call.speed_sorted, i)
                       /\ \A j \in W : ~Estimate(call.speed_sorted, j).nan =>
                             Leq(Estimate(call.speed_sorted, j),
                                 Estimate(call.speed_sorted, i))
        /\ \A b \in 1..Len(call.brake_sorted) :
              Estimated(call.speed_sorted, call.brake_sorted[b].timestamp) = {} =>
                 \A k \in 1..Len(Out.details) :
                    Out.details[k].timestamp # call.brake_sorted[b].timestamp
        /\ ~Out.raised =>
              \A b \in 1..Len(call.brake_sorted) :
                 ( /\ call.brake_sorted[b].value.num > call.args[1]
                   /\ \E i \in Estimated(call.speed_sorted, call.brake_sorted[b].timestamp) :
                         EstimateAbove(call.speed_sorted, i, call.args[2]) )
                 => \E k \in 1..Len(Out.details) :
                       Out.details[k].timestamp = call.brake_sorted[b].timestamp

\* a record whose estimate is taken against a Speed row outside the window
C23_Witness ==
    /\ call.fn = "check_emergency_stop"
    /\ Len(Out.details) = 1
    /\ Len(call.speed_sorted) = 2
    /\ call.speed_sorted[1].timestamp < Out.details[1].timestamp - WindowTicks
    /\ call.speed_sorted[2].timestamp = Out.details[1].timestamp

\* a brake sample above the threshold with only the first Speed row in its
\* window, the Speed falling steeply right after it: no record
C23_FirstRowOnly ==
    /\ call.fn = "check_emergency_stop"
    /\ ~Out.raised
    /\ Len(call.speed_sorted) = 2
    /\ EstimateAbove(call.speed_sorted, 2, call.args[2])
    /\ \E b \in 1..Len(call.brake_sorted) :
          /\ call.brake_sorted[b].value.num > call.args[1]
          /\ Nearby(call.speed_sorted, call.brake_sorted[b].timestamp) = {1}
    /\ Out.passed

\* ---- results
\* the results the call in progress has returned: that of a single check,
\* or those of the checks called by run_all_tests or in another order
ReturnedResults ==
    IF call.fn \in CheckFns THEN { r \in { Out } : ~r.raised }
    ELSE IF call.fn = "run_all_tests" THEN { Out.results[c] : c \in 1..Len(Out.results) }
    ELSE IF call.fn = "run_checks" THEN { r \in { Out[c] : c \in 1..5 } : ~r.raised }
    ELSE { }

\* C24: a result with the pass flag set has no violation record and no
\* violation timestamp; a result with a violation record has the flag
\* cleared.
C24_PassedMeansClean ==
    \A r \in ReturnedResults :
        /\ r.passed => Clean(r)
        /\ Len(r.details) > 0 => ~r.passed

\* run_all_tests has returned results of both kinds
C24_Witness ==
    /\ call.fn = "run_all_tests"
    /\ \E r \in ReturnedResults : r.passed
    /\ \E r \in ReturnedResults : ~r.passed /\ Len(r.details) >= 2
    /\ \E r \in ReturnedResults : ~r.passed /\ Len(r.details) = 0

\* the time a violation record is filed under
RecordTime(r, i) ==
    IF r.name = "Message Timeout Detection" THEN r.details[i].start_time
    ELSE r.details[i].timestamp

\* C25: in a result of check_overspeed, check_timeout, check_emergency_stop
\* or check_checksum the i-th violation timestamp is the timestamp (timeout:
\* start_time) of the i-th record, one entry per record, and to_dict reports
\* the number of records as violation_count.
C25_TimestampPerRecord ==
    \A r \in ReturnedResults :
        r.name # "Signal Bounds Validation" =>
            /\ Len(r.timestamps) = Len(r.details)
            /\ \A i \in 1..Len(r.details) : r.timestamps[i] = RecordTime(r, i)
            /\ to_dict(r).violation_count = Len(r.details)

\* two records of one timestamp
C25_Witness ==
    \E r \in ReturnedResults :
        /\ r.name = "Overspeed Detection"
        /\ Len(r.details) = 2
        /\ r.timestamps[1] = r.timestamps[2]
        /\ to_dict(r).violation_count = 2

\* ---- one frame, one kind of sample
\* the names of the signals the database declares
SignalNames ==
    UNION { { dbc[k].signals[j].name : j \in 1..Len(dbc[k].signals) } : k \in 1..Len(dbc) }

\* C26: the rows one frame adds to the output are either one sample per
\* signal of its message, all decoded, or a single UNKNOWN or ERROR sample;
\* a frame whose decode fails adds no sample of a signal.
C26_NoMixture ==
    [][messages' # messages =>
          LET msg == messages'[Len(messages')]
              new == SubSeq(df', Len(df) + 1, Len(df'))
              failed == { j \in 1..Len(new) : new[j].message_name \in {"UNKNOWN", "ERROR"} }
          IN /\ SubSeq(df', 1, Len(df)) = df
             /\ \/ /\ failed = {}
                   /\ Decodable(msg)
                   /\ Len(new) = Len(MessageOf(msg).signals)
                   /\ \A j \in 1..Len(new) :
                         /\ new[j].signal_name = MessageOf(msg).signals[j].name
                         /\ new[j].value.tag = "num"
                \/ /\ failed = {1}
                   /\ Len(new) = 1
                   /\ ~Decodable(msg)
             /\ ~Decodable(msg) =>
                   \A j \in 1..Len(new) : new[j].signal_name \notin SignalNames]_vars

\* a frame of a two-signal message has failed to decode after a frame of
\* the same message was decoded: the only row of its payload is the ERROR row
C26_Witness ==
    /\ pc = "decoding"
    /\ Len(messages) = 2
    /\ messages[1].id = BrakeId /\ Decodable(messages[1])
    /\ messages[2].id = BrakeId /\ ~Decodable(messages[2])
    /\ Len(df) = 3
    /\ df[3].message_name = "ERROR"
    /\ df[3].raw_data = Hex(messages[2].data)

\* ---- the scope of check_timeout
\* a record of the returned result spans the instant t
Spans(t) ==
    \E k \in 1..Len(Out.details) :
        Out.details[k].start_time < t /\ t < Out.details[k].end_time

\* the instants at which a sample counts for check_timeout called with
\* message name 'name' ("" for none)
Activity(name) ==
    IF name = "" THEN { messages[i].timestamp : i \in 1..Len(messages) }
    ELSE { df[i].timestamp : i \in { j \in 1..Len(df) : df[j].message_name = name } }

\* C27: without a message name every frame of the trace, those decoded as
\* UNKNOWN or ERROR samples included, counts as activity for check_timeout:
\* no reported gap spans the timestamp of a frame, and gaps begin and end at
\* frames; with a message name the same holds of the samples of that
\* message only, and every pair of neighbouring instants further apart than
\* the timeout is reported.
C27_TimeoutScope ==
    call.fn = "check_timeout" =>
        LET T == Activity(call.args[2])
        IN /\ ~Out.raised
           /\ \A t \in T : ~Spans(t)
           /\ \A k \in 1..Len(Out.details) :
                 Out.details[k].start_time \in T /\ Out.details[k].end_time \in T
           /\ \A a, b \in T :
                 ( /\ b - a > call.args[1]
                   /\ ~\E c \in T : a < c /\ c < b )
                 => \E k \in 1..Len(Out.details) :
                       Out.details[k].start_time = a /\ Out.details[k].end_time = b

\* the rows of df that are decoded signal samples
DecodedRows == { i \in 1..Len(df) : df[i].message_name \notin {"UNKNOWN", "ERROR"} }

\* without a message name check_timeout passes because an UNKNOWN or ERROR
\* sample lies between two decoded frames, which on their own are further
\* apart than the timeout
C27_Witness ==
    /\ call.fn = "check_timeout"
    /\ call.args = << 1, "" >>
    /\ Out.passed
    /\ DecodedRows # 1..Len(df)
    /\ ~check_timeout(Filter(df, DecodedRows), 1, "").passed

\* with a message name the samples of other messages do not close a gap
C27_FilterWitness ==
    /\ call.fn = "check_timeout"
    /\ call.args = << 1, "VehicleSpeed" >>
    /\ Len(Out.details) = 1
    /\ check_timeout(df, 1, "").passed

\* ---- several samples of one timestamp
PressureAt(t) == { i \in PressureRows : df[i].timestamp = t }
ChecksumAt(t) == { j \in ChecksumRows : df[j].timestamp = t }
RecordsAt(r, t) == { k \in 1..Len(r.details) : r.details[k].timestamp = t }
StampsAt(r, t) == { k \in 1..Len(r.timestamps) : r.timestamps[k] = t }

\* C28 (as claimed): at a timestamp shared by several BrakePressure and
\* several BrakeChecksum samples check_checksum has one record, and one
\* violation timestamp, per pair of a pressure and a checksum sample of
\* that timestamp whose values differ.
C28_PairsPerTimestamp ==
    Returned("check_checksum") =>
        \A t \in Times :
            Cardinality(PressureAt(t)) >= 2 /\ Cardinality(ChecksumAt(t)) >= 2 =>
                LET bad == { p \in PressureAt(t) \X ChecksumAt(t) :
                               df[p[2]].value.num # df[p[1]].value.num }
                IN /\ Cardinality(RecordsAt(Out, t)) = Cardinality(bad)
                   /\ Cardinality(StampsAt(Out, t)) = Cardinality(bad)

\* the same with the two values compared as check_checksum compares them,
\* after int()
C28_TruncatedPairsPerTimestamp ==
    Returned("check_checksum") =>
        \A t \in Times :
            LET bad == { p \in PressureAt(t) \X ChecksumAt(t) :
                           int(df[p[2]].value.num) # int(df[p[1]].value.num) }
            IN /\ Cardinality(RecordsAt(Out, t)) = Cardinality(bad)
               /\ Cardinality(StampsAt(Out, t)) = Cardinality(bad)

\* two frames of one timestamp, the first with a matching checksum, give
\* two records: each pressure sample is compared with both checksums
C28_CrossPairs ==
    /\ Returned("check_checksum")
    /\ Len(messages) = 2
    /\ messages[1].data = << 210, 210 >>
    /\ messages[2].data = << 210, 90 >>
    /\ messages[1].timestamp = messages[2].timestamp
    /\ Len(Out.details) = 2
    /\ Out.timestamps = << messages[1].timestamp, messages[1].timestamp >>

\* ---- one signal name in two messages
\* the messages of the database that declare a signal of this name
Declaring(name) ==
    { m \in 1..Len(dbc) : \E s \in 1..Len(dbc[m].signals) : dbc[m].signals[s].name = name }

\* the message listed last among them, and its signal of this name
LastDeclaring(name) == CHOOSE m \in Declaring(name) : \A n \in Declaring(name) : n <= m
LastSignal(name) ==
    LET m == LastDeclaring(name)
    IN dbc[m].signals[CHOOSE s \in 1..Len(dbc[m].signals) : dbc[m].signals[s].name = name]

\* the value of row i lies outside the bounds the last declaring message
\* gives the row's signal name
OutsideLast(i) ==
    /\ Declaring(df[i].signal_name) # {}
    /\ df[i].value.tag = "num"
    /\ LET sig == LastSignal(df[i].signal_name)
       IN \/ sig.minimum.has /\ df[i].value.num < sig.minimum.v
          \/ sig.maximum.has /\ df[i].value.num > sig.maximum.v

\* C29: check_signal_bounds judges a sample by the bounds that the message
\* listed last among those declaring the sample's signal name gives that
\* name, whatever message the sample came from, and its records carry the
\* bounds and the name of that message.
C29_BoundsByNameAlone ==
    call.fn = "check_signal_bounds" =>
        LET rows == SortedSeq({ i \in 1..Len(df) : OutsideLast(i) })
        IN /\ Len(Out.details) = Len(rows)
           /\ \A k \in 1..Len(Out.details) :
                 k <= Len(rows) =>
                    LET name == df[rows[k]].signal_name
                    IN /\ Out.details[k].signal = name
                       /\ Out.details[k].timestamp = df[rows[k]].timestamp
                       /\ Out.details[k].message = dbc[LastDeclaring(name)].name
                       /\ Out.details[k].min = LastSignal(name).minimum
                       /\ Out.details[k].max = LastSignal(name).maximum

\* Speed is declared by VehicleSpeed and, later, by WheelSpeed: a
\* VehicleSpeed sample inside its own bounds is reported against those of
\* WheelSpeed, and one below its own minimum is not reported
C29_Witness ==
    /\ call.fn = "check_signal_bounds"
    /\ Cardinality(Declaring("Speed")) = 2
    /\ Len(Out.details) = 1
    /\ Out.details[1].message = "WheelSpeed"
    /\ Out.details[1].max = Bound(100 * ValueDen)
    /\ \E i, j \in 1..Len(df) :
          /\ df[i].message_name = "VehicleSpeed" /\ df[i].value = Num(210 * ValueDen)
          /\ df[i].timestamp = Out.details[1].timestamp
          /\ df[j].message_name = "VehicleSpeed" /\ df[j].value = Num(90 * ValueDen)

====
